---- MODULE Spec2Model ----
(***************************************************************************)
(* The simulation view synchronisation loop of static/gameplay.js: the     *)
(* polling controller (start/stop, step requests, delay timers), the       *)
(* reconciliation of a step response into the panels, sprites and level    *)
(* totals, the genome formatter and the persistence requests.              *)
(*                                                                         *)
(* Conventions.  An optional JavaScript value (a field that may be         *)
(* missing, null or of the wrong type) is a sequence of length 0 or 1:     *)
(* None is the missing value, Some(x) the present one.  Text nodes hold    *)
(* strings, built as the template literals of the source build them.  A    *)
(* gene expression value is an integer number of ten-thousandths (9000 is  *)
(* 0.9), so that the thresholds 0.25 and 0.75 and toFixed(3) are exact.    *)
(***************************************************************************)
EXTENDS Integers, Sequences, FiniteSets, TLC

\* ------------------------------------------------------------------ bounds
\* Number of step chains (a pending request or its delay timer) alive at once.
MaxChains == 2
\* Number of save requests whose answer is still outstanding.
MaxSaves == 1

None == <<>>
Some(x) == <<x>>
IsSome(o) == Len(o) = 1
Get(o) == o[1]

\* ------------------------------------------------------ the static layout
\* The organisms and trophic levels the page registers at load (lines 163-191):
\* "a" and "b" share level "L1", "c" is alone in "L2".  "z" is an id the
\* server may send that the page does not know.
Registered == {"a", "b", "c"}
Levels == {"L1", "L2"}
LevelOf(id) == IF id = "c" THEN "L2" ELSE "L1"

\* Text of a node that the script has not written yet (rendered by the server).
StaticText == "<static>"

VARIABLES
  running,            \* let running (line 7)
  currentController,  \* let currentController (line 8): 0 is null, else a chain
  chain,              \* per chain: "free", "pending" (fetch in flight), "timer"
  showExactGenes,     \* let showExactGenes (line 213)
  toggleLabel,        \* genomeDisplayButton.textContent
  organismPanels,     \* const organismPanels (line 10)
  sprites,            \* the sprite elements, by organism id
  levelTotals,        \* countNode.textContent of each entry of levelPanels
  saveReqs,           \* save requests in flight
  resetReq,           \* the reset request of line 426
  out,                \* what the handler that ran last issued and dispatched
  stopCause,          \* history: why the loop last stopped
  overtaken,          \* history: pending requests issued before a later one
  stale,              \* history: requests left pending by a user stop
  extinctSeen         \* history: registered ids some reconciled response listed extinct

vars == <<running, currentController, chain, showExactGenes, toggleLabel,
          organismPanels, sprites, levelTotals, saveReqs, resetReq, out,
          stopCause, overtaken, stale, extinctSeen>>

ctlVars == <<running, currentController, chain>>
viewVars == <<organismPanels, sprites, levelTotals>>
histVars == <<stopCause, overtaken, stale, extinctSeen>>

Slots == 1..MaxChains

\* ------------------------------------------------------- genome formatter
defaultTraitNames == <<"Trait 1", "Trait 2", "Trait 3", "Trait 4">>

\* resolveTraitName (index is 1-based here, 0-based in the source).
resolveTraitName(traitNames, index) ==
  IF IsSome(traitNames) /\ index <= Len(Get(traitNames)) /\ Get(traitNames)[index] # ""
  THEN Get(traitNames)[index]
  ELSE IF index <= Len(defaultTraitNames)
       THEN defaultTraitNames[index]
       ELSE "Trait " \o ToString(index)

\* genotypeLabel: value is None when Number.parseFloat gives no finite number.
genotypeLabel(value) ==
  IF ~IsSome(value) THEN "n/a"
  ELSE IF Get(value) >= 7500 THEN "TT"
  ELSE IF Get(value) > 2500 /\ Get(value) < 7500 THEN "Tt"
  ELSE "tt"

Pad3(n) == IF n < 10 THEN "00" \o ToString(n)
           ELSE IF n < 100 THEN "0" \o ToString(n) ELSE ToString(n)

\* numeric.toFixed(3) of a non-negative value given in ten-thousandths (the
\* values of the responses below are no rounding ties).
toFixed3(v) ==
  LET t == (v + 5) \div 10
  IN  ToString(t \div 1000) \o "." \o Pad3(t % 1000)

formatGeneValue(value, traitNames, index, exact) ==
  LET label == resolveTraitName(traitNames, index)
  IN  IF exact
      THEN label \o ": " \o (IF IsSome(value) THEN toFixed3(Get(value)) ELSE "n/a")
      ELSE label \o ": " \o genotypeLabel(value)

RECURSIVE JoinFrom(_, _, _, _)
\* averageGenome.map(formatGeneValue).join(' | '), from position index on.
JoinFrom(genome, traitNames, index, exact) ==
  IF index > Len(genome) THEN ""
  ELSE formatGeneValue(genome[index], traitNames, index, exact)
       \o (IF index < Len(genome) THEN " | " ELSE "")
       \o JoinFrom(genome, traitNames, index + 1, exact)

formattedValues(genome, traitNames, exact) == JoinFrom(genome, traitNames, 1, exact)

updateGenomeToggleLabel(exact) ==
  IF exact THEN "Show Gene Notation" ELSE "Show Exact Genes"

\* ------------------------------------------------------------ view state
\* A view is the record of the three DOM-facing tables.
View == [panels |-> organismPanels, sprites |-> sprites, totals |-> levelTotals]

\* A sprite element that was removed from the page (lines 256-259).
NoSprite == [present |-> FALSE, row |-> None, col |-> None,
             caughtPrey |-> None, cycleStep |-> None, canMove |-> None]

RECURSIVE SumPop(_, _)
\* The total of lines 195-200 over the panels ids.
SumPop(panels, ids) ==
  IF ids = {} THEN 0
  ELSE LET id == CHOOSE x \in ids : TRUE
       IN  (IF IsSome(panels[id].population) THEN Get(panels[id].population) ELSE 0)
           + SumPop(panels, ids \ {id})

CountText(total) == "Population: " \o ToString(total) \o " individuals"

refreshLevelTotals(v) ==
  [v EXCEPT !.totals =
     [l \in Levels |->
        CountText(SumPop(v.panels, {id \in Registered : LevelOf(id) = l}))]]

\* String(value) of an optional number, and the 'true' / 'false' of a flag.
StringOf(o) == IF IsSome(o) THEN Some(ToString(Get(o))) ELSE None
FlagOf(o) == IF IsSome(o) THEN Some(IF Get(o) THEN "true" ELSE "false") ELSE None

\* updateSprite writing the flags a delta carries and keeping the others.
updateSprite_KeepFlags(v, d) ==
  IF d.id \notin Registered \/ ~v.sprites[d.id].present THEN v
  ELSE LET s == v.sprites[d.id]
       IN  [v EXCEPT !.sprites[d.id] =
              [present |-> TRUE,
               row |-> IF IsSome(d.row) THEN StringOf(d.row) ELSE s.row,
               col |-> IF IsSome(d.col) THEN StringOf(d.col) ELSE s.col,
               caughtPrey |-> IF IsSome(d.caughtPrey) THEN FlagOf(d.caughtPrey)
                              ELSE s.caughtPrey,
               cycleStep |-> IF IsSome(d.cycleStep) THEN StringOf(d.cycleStep)
                             ELSE s.cycleStep,
               canMove |-> IF IsSome(d.canMove) THEN FlagOf(d.canMove)
                           ELSE s.canMove]]

\* updateSprite clearing the position a delta does not carry.
updateSprite_ResetPosition(v, d) ==
  IF d.id \notin Registered \/ ~v.sprites[d.id].present THEN v
  ELSE [v EXCEPT !.sprites[d.id] =
          [present |-> TRUE,
           row |-> StringOf(d.row),
           col |-> StringOf(d.col),
           caughtPrey |-> FlagOf(d.caughtPrey),
           cycleStep |-> StringOf(d.cycleStep),
           canMove |-> FlagOf(d.canMove)]]

\* updateSprite (lines 130-161).  row and col stand for the data attribute and
\* the style property, which are written together; a flag that the delta
\* does not carry is deleted.
updateSprite(v, d) ==
  IF d.id \notin Registered \/ ~v.sprites[d.id].present THEN v
  ELSE LET s == v.sprites[d.id]
       IN  [v EXCEPT !.sprites[d.id] =
              [present |-> TRUE,
               row |-> IF IsSome(d.row) THEN StringOf(d.row) ELSE s.row,
               col |-> IF IsSome(d.col) THEN StringOf(d.col) ELSE s.col,
               caughtPrey |-> FlagOf(d.caughtPrey),
               cycleStep |-> StringOf(d.cycleStep),
               canMove |-> FlagOf(d.canMove)]]

\* markExtinct (lines 245-260): the panel stays in organismPanels.
markExtinct(v, organismId) ==
  IF organismId \notin Registered THEN v
  ELSE [v EXCEPT !.panels[organismId].population = Some(0),
                 !.panels[organismId].populationText = "Extinct",
                 !.panels[organismId].hidden = TRUE,
                 !.sprites[organismId] = NoSprite]

formatCoord(value) == IF value < 10 THEN "0" \o ToString(value) ELSE ToString(value)

\* updateOrganismPanel adding the reported population to the stored one.
updateOrganismPanel_Accumulate(v, d, exact) ==
  IF d.id \notin Registered THEN v
  ELSE LET p == v.panels[d.id]
           p1 == IF IsSome(d.population)
                 THEN LET n == Get(d.population)
                                   + (IF IsSome(p.population) THEN Get(p.population) ELSE 0)
                      IN  [p EXCEPT !.populationText = ToString(n) \o " individuals",
                                    !.population = Some(n)]
                 ELSE p
           p2 == [p1 EXCEPT
                    !.genomeText =
                       IF IsSome(d.averageGenome) /\ Len(Get(d.averageGenome)) > 0
                       THEN "Avg genome: "
                            \o formattedValues(Get(d.averageGenome), d.traitNames, exact)
                       ELSE "Avg genome: n/a",
                    !.lastAverageGenome = d.averageGenome,
                    !.lastTraitNames = d.traitNames]
           p3 == IF IsSome(d.row) /\ IsSome(d.col)
                 THEN [p2 EXCEPT !.coordsText =
                         formatCoord(Get(d.row)) \o ", c" \o formatCoord(Get(d.col))]
                 ELSE p2
       IN  refreshLevelTotals([v EXCEPT !.panels[d.id] = p3])

\* updateOrganismPanel (lines 262-301); every panel has its population, genome
\* and coords nodes, as the page template renders them.
updateOrganismPanel(v, d, exact) ==
  IF d.id \notin Registered THEN v
  ELSE LET p == v.panels[d.id]
           p1 == IF IsSome(d.population)
                 THEN [p EXCEPT !.populationText =
                                  ToString(Get(d.population)) \o " individuals",
                                !.population = d.population]
                 ELSE p
           p2 == [p1 EXCEPT
                    !.genomeText =
                       IF IsSome(d.averageGenome) /\ Len(Get(d.averageGenome)) > 0
                       THEN "Avg genome: "
                            \o formattedValues(Get(d.averageGenome), d.traitNames, exact)
                       ELSE "Avg genome: n/a",
                    !.lastAverageGenome = d.averageGenome,
                    !.lastTraitNames = d.traitNames]
           p3 == IF IsSome(d.row) /\ IsSome(d.col)
                 THEN [p2 EXCEPT !.coordsText =
                         formatCoord(Get(d.row)) \o ", c" \o formatCoord(Get(d.col))]
                 ELSE p2
       IN  refreshLevelTotals([v EXCEPT !.panels[d.id] = p3])

RECURSIVE forEachOrganism(_, _, _)
\* organisms.forEach(organism => { updateSprite; updateOrganismPanel }) (354-357)
forEachOrganism(v, organisms, exact) ==
  IF organisms = <<>> THEN v
  ELSE forEachOrganism(
         updateOrganismPanel(updateSprite(v, Head(organisms)), Head(organisms), exact),
         Tail(organisms), exact)

RECURSIVE forEachExtinct(_, _)
forEachExtinct(v, ids) ==
  IF ids = <<>> THEN v
  ELSE forEachExtinct(markExtinct(v, Head(ids)), Tail(ids))

\* The body of the second .then of performStep up to line 364.  data is the
\* parsed response, a record whose fields are optional.
OrganismsOf(data) == IF IsSome(data.organisms) THEN Get(data.organisms) ELSE <<>>
ExtinctOf(data) == IF IsSome(data.extinct) THEN Get(data.extinct) ELSE <<>>

\* The reconciliation marking the extinct ids before it applies the deltas.
reconcile_ExtinctFirst(v, data, exact) ==
  LET v1 == IF Len(ExtinctOf(data)) > 0
            THEN refreshLevelTotals(forEachExtinct(v, ExtinctOf(data)))
            ELSE v
  IN  forEachOrganism(v1, OrganismsOf(data), exact)

reconcile(v, data, exact) ==
  LET v1 == forEachOrganism(v, OrganismsOf(data), exact)
  IN  IF Len(ExtinctOf(data)) > 0
      THEN refreshLevelTotals(forEachExtinct(v1, ExtinctOf(data)))
      ELSE v1

\* ------------------------------------------------------- step responses
\* An organism delta that names id and carries no other field.
Delta(id) == [id |-> id, row |-> None, col |-> None, caughtPrey |-> None,
              cycleStep |-> None, canMove |-> None, population |-> None,
              averageGenome |-> None, traitNames |-> None]

PopDelta(id, n) == [Delta(id) EXCEPT !.population = Some(n)]

\* The response body {} : every field missing.
EmptyData == [organisms |-> None, extinct |-> None, cycleComplete |-> None,
              cycleSummary |-> None, cycleIndex |-> None]

\* The parsed bodies the step endpoint answers with in the controller runs;
\* None is a falsy body (JSON null).
LoopData ==
  { None,
    Some(EmptyData),
    Some([EmptyData EXCEPT !.organisms = Some(<<PopDelta("a", 2)>>),
                           !.cycleComplete = Some(FALSE)]),
    Some([EmptyData EXCEPT !.organisms = Some(<<PopDelta("a", 1)>>),
                           !.extinct = Some(<<"b">>),
                           !.cycleComplete = Some(TRUE),
                           !.cycleSummary = Some(<<"summary">>),
                           !.cycleIndex = Some(1)]),
    Some([EmptyData EXCEPT !.cycleComplete = Some(TRUE)]) }

\* The deltas the step endpoint sends in the reconciliation runs: populations
\* for every organism and for the unknown id, and for "a" a genome with trait
\* names, an empty genome, a position with the transient flags and a row alone;
\* the delta of the unknown id carries a position, a flag and a genome too.
ViewDeltas ==
  { PopDelta("a", 2),
    [PopDelta("a", 5) EXCEPT !.averageGenome = Some(<<Some(9000), Some(3333)>>),
                             !.traitNames = Some(<<"Beak">>)],
    [Delta("a") EXCEPT !.averageGenome = Some(<<>>)],
    [Delta("a") EXCEPT !.row = Some(1), !.col = Some(12),
                       !.caughtPrey = Some(TRUE), !.cycleStep = Some(3),
                       !.canMove = Some(FALSE)],
    [Delta("a") EXCEPT !.row = Some(4)],
    PopDelta("b", 1),
    PopDelta("c", 3),
    [PopDelta("z", 7) EXCEPT !.row = Some(2), !.col = Some(2),
                             !.caughtPrey = Some(TRUE),
                             !.averageGenome = Some(<<Some(9000)>>)] }

\* The organisms arrays: missing, one delta, or two deltas (the second for the
\* same organism or for another member of its level).
OrgLists ==
  {None} \cup {Some(<<d>>) : d \in ViewDeltas}
         \cup {Some(<<d, e>>) : d \in {x \in ViewDeltas : x.id = "a" /\ IsSome(x.population)},
                                e \in {PopDelta("a", 2), PopDelta("b", 1)}}

ExtinctLists == {None, Some(<<"a">>), Some(<<"b", "z">>), Some(<<"z">>)}

\* The parsed bodies of the reconciliation runs; none completes a cycle.
ViewData ==
  {Some([EmptyData EXCEPT !.organisms = o, !.extinct = e]) :
     o \in OrgLists, e \in ExtinctLists}

\* The completion test taking a missing cycleComplete for true.
IsComplete_MissingIsTrue(data) ==
  IsSome(data) /\ Get(data).cycleComplete # Some(FALSE)

IsComplete(data) ==
  IsSome(data) /\ IsSome(Get(data).cycleComplete) /\ Get(Get(data).cycleComplete)

\* ------------------------------------------------------------ persistence
\* persistState without its guard: a missing cycle index is saved as cycle 0.
persistState_NoGuard(cycle, summary, organisms) ==
  << [cycle |-> IF IsSome(cycle) THEN Get(cycle) ELSE 0,
      summary |-> summary, organisms |-> organisms] >>

\* persistState: the save requests it issues (none, or one with this body).
persistState(cycle, summary, organisms) ==
  IF ~IsSome(cycle) THEN <<>>
  ELSE << [cycle |-> Get(cycle), summary |-> summary, organisms |-> organisms] >>

SummaryOf(data) == IF IsSome(data.cycleSummary) THEN Get(data.cycleSummary) ELSE <<>>

\* The detail of the simulation:cycleComplete event (lines 367-370).
Detail(data) == [cycle |-> data.cycleIndex, summary |-> SummaryOf(data)]

\* The record of a handler that issued and dispatched nothing.  handler names
\* the handler, saves the save requests it issued, events the details of the
\* simulation:cycleComplete events it dispatched, issued the chain whose step
\* request it issued, ok the chain whose response it handled with the loop
\* running and the cycle not complete (0 for no chain).
Ran(handler) == [handler |-> handler, saves |-> <<>>, events |-> <<>>,
                 issued |-> 0, ok |-> 0]

\* ------------------------------------------------------------------ Init
Init ==
  /\ running = FALSE
  /\ currentController = 0
  /\ chain = [i \in Slots |-> "free"]
  /\ showExactGenes = FALSE
  /\ toggleLabel = updateGenomeToggleLabel(FALSE)
  /\ organismPanels =
       [id \in Registered |->
          [levelId |-> LevelOf(id), population |-> None,
           populationText |-> StaticText, lastAverageGenome |-> None,
           lastTraitNames |-> None, genomeText |-> StaticText,
           coordsText |-> StaticText, hidden |-> FALSE]]
  /\ sprites = [id \in Registered |-> [NoSprite EXCEPT !.present = TRUE]]
  /\ levelTotals = [l \in Levels |-> StaticText]
  /\ saveReqs = 0
  /\ resetReq = "pending"
  /\ out = Ran("load")
  /\ stopCause = "none"
  /\ overtaken = {}
  /\ stale = {}
  /\ extinctSeen = {}

\* --------------------------------------------------------------- actions
Pending == {j \in Slots : chain[j] = "pending"}

\* performStep past its guard (lines 329-335) on chain i: a new controller
\* replaces currentController and the fetch is issued.
performStep(i) ==
  /\ chain' = [chain EXCEPT ![i] = "pending"]
  /\ currentController' = i
  /\ overtaken' = overtaken \cup (Pending \ {i})

\* stopSimulation (lines 408-416): the chain whose controller it aborts, 0 when
\* none.  abort() rejects the pending fetch at once and the reactions (catch,
\* which stops again, and finally) run in the microtasks that end the
\* handler that called it, so the aborted chain ends within that action.
stopSimulation(abort) == IF abort THEN currentController ELSE 0

\* The click handler while not running: startSimulation (lines 398-406).  The
\* new request takes the lowest free chain.
ClickStart(S) ==
  /\ ~running
  /\ \E i \in S :
       /\ chain[i] = "free"
       /\ \A j \in S : chain[j] = "free" => i <= j
       /\ performStep(i)
       /\ out' = [Ran("click") EXCEPT !.issued = i]
  /\ running' = TRUE
  /\ stopCause' = "none"
  /\ UNCHANGED <<showExactGenes, toggleLabel, viewVars, saveReqs, resetReq,
                 stale, extinctSeen>>

\* finally that sets no delay timer.
finally_NoTimer(i) ==
  /\ currentController' = IF currentController = i THEN 0 ELSE currentController
  /\ chain' = [chain EXCEPT ![i] = "free"]

\* finally (lines 380-387) of chain i after a response that was handled; its
\* controller was not aborted, or the chain would have ended with the abort.
finally(i) ==
  /\ currentController' = IF currentController = i THEN 0 ELSE currentController
  /\ chain' = [chain EXCEPT ![i] = IF running' THEN "timer" ELSE "free"]

\* The stop click with a stopSimulation that also dispatches the completion
\* event.
ClickStop_Notify ==
  /\ running
  /\ LET c == stopSimulation(TRUE)
     IN  /\ chain' = [j \in Slots |-> IF j = c THEN "free" ELSE chain[j]]
         /\ stale' = Pending \ {c}
         /\ overtaken' = overtaken \ {c}
  /\ running' = FALSE
  /\ currentController' = 0
  /\ stopCause' = "user"
  /\ out' = [Ran("click") EXCEPT !.events = <<[cycle |-> None, summary |-> <<>>]>>]
  /\ UNCHANGED <<showExactGenes, toggleLabel, viewVars, saveReqs, resetReq,
                 extinctSeen>>

\* The click handler while running: stopSimulation() (lines 419-420).
ClickStop ==
  /\ running
  /\ LET c == stopSimulation(TRUE)
     IN  /\ chain' = [j \in Slots |-> IF j = c THEN "free" ELSE chain[j]]
         /\ stale' = Pending \ {c}
         /\ overtaken' = overtaken \ {c}
  /\ running' = FALSE
  /\ currentController' = 0
  /\ stopCause' = "user"
  /\ out' = Ran("click")
  /\ UNCHANGED <<showExactGenes, toggleLabel, viewVars, saveReqs, resetReq,
                 extinctSeen>>

\* The delay timer of chain i fires: performStep, with its guard (325-327).
Timer(i) ==
  /\ chain[i] = "timer"
  /\ IF running
     THEN performStep(i)
     ELSE /\ chain' = [chain EXCEPT ![i] = "free"]
          /\ UNCHANGED <<currentController, overtaken>>
  /\ out' = [Ran("timer") EXCEPT !.issued = IF running THEN i ELSE 0]
  /\ UNCHANGED <<running, showExactGenes, toggleLabel, viewVars, saveReqs,
                 resetReq, stopCause, stale, extinctSeen>>

\* A failed step whose catch logs the error and leaves the loop running.
StepFail_KeepRunning(i) ==
  /\ chain[i] = "pending"
  /\ UNCHANGED running
  /\ finally(i)
  /\ overtaken' = overtaken \ {i}
  /\ stale' = stale \ {i}
  /\ out' = Ran("step")
  /\ UNCHANGED <<showExactGenes, toggleLabel, viewVars, saveReqs, resetReq,
                 stopCause, extinctSeen>>

\* The step request of chain i fails: a status that is not 2xx, a transport
\* error or an unreadable body (lines 337-339, then catch and finally).
StepFail(i) ==
  /\ chain[i] = "pending"
  /\ LET c == stopSimulation(TRUE)
     IN  /\ chain' = [j \in Slots |-> IF j = i \/ j = c THEN "free" ELSE chain[j]]
         /\ overtaken' = overtaken \ {i, c}
         /\ stale' = stale \ {i, c}
  /\ running' = FALSE
  /\ currentController' = 0
  /\ stopCause' = "failure"
  /\ out' = Ran("step")
  /\ UNCHANGED <<showExactGenes, toggleLabel, viewVars, saveReqs, resetReq,
                 extinctSeen>>

\* A 2xx answer that names an unregistered id throwing in the then-callback,
\* which the catch-callback treats as a failure of the request.
StepOk_UnknownFails(i, data) ==
  IF /\ IsSome(data)
     /\ \/ \E k \in 1..Len(OrganismsOf(Get(data))) :
             OrganismsOf(Get(data))[k].id \notin Registered
        \/ \E k \in 1..Len(ExtinctOf(Get(data))) :
             ExtinctOf(Get(data))[k] \notin Registered
  THEN StepFail(i)
  ELSE
  /\ chain[i] = "pending"
  /\ IF ~IsSome(data)
     THEN /\ UNCHANGED <<viewVars, running, saveReqs, stopCause, extinctSeen>>
          /\ out' = [Ran("step") EXCEPT !.ok = IF running THEN i ELSE 0]
     ELSE LET d == Get(data)
              v == reconcile(View, d, showExactGenes)
              saves == persistState(d.cycleIndex, SummaryOf(d), OrganismsOf(d))
          IN  /\ organismPanels' = v.panels
              /\ sprites' = v.sprites
              /\ levelTotals' = v.totals
              /\ extinctSeen' =
                   extinctSeen \cup
                     ({ExtinctOf(d)[k] : k \in 1..Len(ExtinctOf(d))} \cap Registered)
              /\ IF IsComplete(data)
                 THEN /\ running' = FALSE
                      /\ stopCause' = "complete"
                      /\ saveReqs + Len(saves) <= MaxSaves
                      /\ saveReqs' = saveReqs + Len(saves)
                      /\ out' = [Ran("step") EXCEPT !.saves = saves,
                                                    !.events = <<Detail(d)>>]
                 ELSE /\ UNCHANGED <<running, saveReqs, stopCause>>
                      /\ out' = [Ran("step") EXCEPT !.ok = IF running THEN i ELSE 0]
  /\ finally(i)
  /\ overtaken' = overtaken \ {i}
  /\ stale' = stale \ {i}
  /\ UNCHANGED <<showExactGenes, toggleLabel, resetReq>>

\* The step request of chain i is answered 2xx with the parsed body data
\* (lines 342-375, then finally).
StepOk(i, data) ==
  /\ chain[i] = "pending"
  /\ IF ~IsSome(data)
     THEN /\ UNCHANGED <<viewVars, running, saveReqs, stopCause, extinctSeen>>
          /\ out' = [Ran("step") EXCEPT !.ok = IF running THEN i ELSE 0]
     ELSE LET d == Get(data)
              v == reconcile(View, d, showExactGenes)
              saves == persistState(d.cycleIndex, SummaryOf(d), OrganismsOf(d))
          IN  /\ organismPanels' = v.panels
              /\ sprites' = v.sprites
              /\ levelTotals' = v.totals
              /\ extinctSeen' =
                   extinctSeen \cup
                     ({ExtinctOf(d)[k] : k \in 1..Len(ExtinctOf(d))} \cap Registered)
              /\ IF IsComplete(data)
                 THEN /\ running' = FALSE
                      /\ stopCause' = "complete"
                      /\ saveReqs + Len(saves) <= MaxSaves  \* bound of the model
                      /\ saveReqs' = saveReqs + Len(saves)
                      /\ out' = [Ran("step") EXCEPT !.saves = saves,
                                                    !.events = <<Detail(d)>>]
                 ELSE /\ UNCHANGED <<running, saveReqs, stopCause>>
                      /\ out' = [Ran("step") EXCEPT !.ok = IF running THEN i ELSE 0]
  /\ finally(i)
  /\ overtaken' = overtaken \ {i}
  /\ stale' = stale \ {i}
  /\ UNCHANGED <<showExactGenes, toggleLabel, resetReq>>

\* The display toggle re-rendering every cached genome through
\* updateOrganismPanel, which also recomputes the level totals.
Toggle_Rerender ==
  /\ showExactGenes' = ~showExactGenes
  /\ toggleLabel' = updateGenomeToggleLabel(showExactGenes')
  /\ organismPanels' =
       [id \in Registered |->
          LET p == organismPanels[id]
          IN  IF ~IsSome(p.lastAverageGenome) THEN p
              ELSE [p EXCEPT !.genomeText =
                      "Avg genome: "
                      \o formattedValues(Get(p.lastAverageGenome), p.lastTraitNames,
                                         showExactGenes')]]
  /\ levelTotals' = refreshLevelTotals(View).totals
  /\ out' = Ran("toggle")
  /\ UNCHANGED <<ctlVars, sprites, saveReqs, resetReq, histVars>>

\* The click handler of the display toggle (lines 304-320).
Toggle ==
  /\ showExactGenes' = ~showExactGenes
  /\ toggleLabel' = updateGenomeToggleLabel(showExactGenes')
  /\ organismPanels' =
       [id \in Registered |->
          LET p == organismPanels[id]
          IN  IF ~IsSome(p.lastAverageGenome) THEN p
              ELSE [p EXCEPT !.genomeText =
                      "Avg genome: "
                      \o formattedValues(Get(p.lastAverageGenome), p.lastTraitNames,
                                         showExactGenes')]]
  /\ out' = Ran("toggle")
  /\ UNCHANGED <<ctlVars, sprites, levelTotals, saveReqs, resetReq, histVars>>

\* A save request is answered (the answer is ignored).
SaveOk ==
  /\ saveReqs > 0
  /\ saveReqs' = saveReqs - 1
  /\ out' = Ran("saveOk")
  /\ UNCHANGED <<ctlVars, showExactGenes, toggleLabel, viewVars, resetReq, histVars>>

\* A failed save request stopping the step loop as a failed step does.
SaveFail_StopsLoop ==
  /\ saveReqs > 0
  /\ saveReqs' = saveReqs - 1
  /\ LET c == stopSimulation(TRUE)
     IN  /\ chain' = [j \in Slots |-> IF j = c THEN "free" ELSE chain[j]]
         /\ overtaken' = overtaken \ {c}
         /\ stale' = stale \ {c}
  /\ running' = FALSE
  /\ currentController' = 0
  /\ stopCause' = "failure"
  /\ out' = Ran("saveFail")
  /\ UNCHANGED <<showExactGenes, toggleLabel, viewVars, resetReq, extinctSeen>>

\* A save request fails and is logged (lines 125-127).
SaveFail ==
  /\ saveReqs > 0
  /\ saveReqs' = saveReqs - 1
  /\ out' = Ran("saveFail")
  /\ UNCHANGED <<ctlVars, showExactGenes, toggleLabel, viewVars, resetReq, histVars>>

\* The reset request of startup is answered (lines 390-392).
ResetOk ==
  /\ resetReq = "pending"
  /\ resetReq' = "done"
  /\ out' = Ran("resetOk")
  /\ UNCHANGED <<ctlVars, showExactGenes, toggleLabel, viewVars, saveReqs, histVars>>

\* The reset request of startup fails and is logged (lines 393-395).
ResetFail ==
  /\ resetReq = "pending"
  /\ resetReq' = "failed"
  /\ out' = Ran("resetFail")
  /\ UNCHANGED <<ctlVars, showExactGenes, toggleLabel, viewVars, saveReqs, histVars>>

\* ------------------------------------------------------- specifications
\* The whole client, with the step endpoint answering from LoopData.
Next ==
  \/ ClickStart(Slots)
  \/ ClickStop
  \/ \E i \in Slots : Timer(i)
  \/ \E i \in Slots : StepFail(i)
  \/ \E i \in Slots : \E data \in LoopData : StepOk(i, data)
  \/ Toggle
  \/ SaveOk
  \/ SaveFail
  \/ ResetOk
  \/ ResetFail

Spec == Init /\ [][Next]_vars

\* The same client under the scheduling the browser guarantees: a delay timer
\* that was set fires.
FairSpec == Spec /\ \A i \in Slots : WF_vars(Timer(i))

\* One step loop at a time, with the step endpoint answering from ViewData.
NextView ==
  \/ ClickStart({1})
  \/ ClickStop
  \/ Timer(1)
  \/ \E data \in ViewData : StepOk(1, data)
  \/ Toggle

SpecView == Init /\ [][NextView]_vars

\* ---------------------------------------------------------------- claims
\* Some chain's step request is issued by this step.
Issued == \E j \in Slots : chain[j] # "pending" /\ chain'[j] = "pending"

\* Some chain's delay timer is set by this step.
Scheduled == \E j \in Slots : chain[j] # "timer" /\ chain'[j] = "timer"

\* While the loop is stopped, only the start click issues a step request or
\* sets the loop running.
ResumesOnlyByStart == (~running /\ (Issued \/ running')) => ClickStart(Slots)

\* C1: at most one step request is in flight at any time.
C1_AtMostOneInFlight == Cardinality(Pending) <= 1

\* C2: the response of a step request that was in flight at a user stop
\* changes no view state and sets no delay timer.
C2_StoppedRequestSuppressed ==
  [][\A i \in Slots : \A data \in LoopData :
       (i \in stale /\ StepOk(i, data)) =>
         (UNCHANGED viewVars /\ chain'[i] # "timer")]_vars

\* C3: a step request is issued only when no earlier one is pending, and no
\* response is reconciled after a later step request was issued.
C3_StepsDoNotOverlap ==
  [][/\ Issued => Pending = {}
     /\ \A i \in Slots : \A data \in LoopData :
          (StepOk(i, data) /\ IsSome(data)) => i \notin overtaken]_vars

\* C4: a response with cycleComplete true stops the loop, issues exactly one
\* save request with its cycleIndex, cycleSummary and organisms (none when
\* cycleIndex is missing), dispatches one event, issues no step request, and
\* no step request follows until the user starts the loop.
C4_CycleCompleteStops ==
  [][/\ \A i \in Slots : \A data \in LoopData :
          (StepOk(i, data) /\ IsComplete(data)) =>
            LET d == Get(data)
            IN  /\ ~running'
                /\ out'.saves =
                     IF IsSome(d.cycleIndex)
                     THEN << [cycle |-> Get(d.cycleIndex),
                              summary |-> SummaryOf(d),
                              organisms |-> OrganismsOf(d)] >>
                     ELSE <<>>
                /\ saveReqs' = saveReqs + Len(out'.saves)
                /\ out'.events = << [cycle |-> d.cycleIndex, summary |-> SummaryOf(d)] >>
                /\ ~Issued
     /\ ResumesOnlyByStart]_vars

C4_Witness ==
  stopCause = "complete" /\ ~running /\ Len(out.saves) = 1 /\ Len(out.events) = 1

\* C5: a failed step request ends the run: running becomes false, no delay
\* timer is set, no step request is issued, and none is issued afterwards
\* until the user starts the loop.
C5_FailureEndsRun ==
  [][/\ \A i \in Slots : StepFail(i) => (~running' /\ ~Scheduled /\ ~Issued)
     /\ (stopCause = "failure" /\ Issued) => ClickStart(Slots)
     /\ (stopCause = "failure" /\ running') => ClickStart(Slots)]_vars

C5_Witness == stopCause = "failure" /\ out.handler = "step" /\ ~running

\* C6: only a successful response with cycleComplete true issues a save
\* request or dispatches the completion event.
C6_OnlyCompletionPersists ==
  [][(out'.saves # <<>> \/ out'.events # <<>> \/ saveReqs' > saveReqs) =>
       \E i \in Slots : \E data \in LoopData : StepOk(i, data) /\ IsComplete(data)]_vars

C6_Witness == out.events # <<>> /\ out.saves = <<>> /\ out.handler = "step"

\* C9: a successful response with cycleComplete false, handled while the loop
\* runs, is followed by the issue of a further step request of its chain,
\* unless the loop stops first.
C9_NextStepFollows ==
  \A i \in Slots : (out.ok = i) ~> (chain[i] = "pending" \/ ~running)

C9_Witness == out.handler = "timer" /\ out.issued # 0 /\ running

\* The population of level l counted over its members that no reconciled
\* response has listed extinct and whose population is known.
LivingTotal(l) ==
  SumPop(organismPanels,
         {id \in Registered : LevelOf(id) = l /\ id \notin extinctSeen})

\* C7: every level total the script has displayed equals the sum of the
\* populations of the level's members that are not extinct and have a known
\* population.  (A total the script has not written yet shows the text the
\* server rendered, which the script does not determine.)
C7_LevelTotalsMatch ==
  \A l \in Levels :
    levelTotals[l] # StaticText => levelTotals[l] = CountText(LivingTotal(l))

\* C8: an organism that a reconciled response listed extinct keeps stored
\* population 0 and no sprite, whatever later responses carry.
C8_ExtinctionIrreversible ==
  \A id \in extinctSeen :
    organismPanels[id].population = Some(0) /\ ~sprites[id].present

\* The fields of a view that reconciliation sets explicitly.
Explicit(v) ==
  [panels |-> [id \in Registered |->
                 [population |-> v.panels[id].population,
                  lastAverageGenome |-> v.panels[id].lastAverageGenome,
                  lastTraitNames |-> v.panels[id].lastTraitNames,
                  genomeText |-> v.panels[id].genomeText,
                  hidden |-> v.panels[id].hidden,
                  sprite |-> v.sprites[id].present]],
   totals |-> v.totals]

\* C10: whenever a step request is pending, reconciling any response twice in
\* succession leaves the populations, cached genomes and trait names, genome
\* texts, hidden and sprite status and level totals that reconciling it once
\* leaves.
C10_ReconcileIdempotent ==
  chain[1] = "pending" =>
    \A data \in ViewData :
      LET once == reconcile(View, Get(data), showExactGenes)
          twice == reconcile(once, Get(data), showExactGenes)
      IN  Explicit(twice) = Explicit(once)

\* A response carrying a population and a genome has just been reconciled and
\* reconciling it again changes nothing.
C10_Witness ==
  /\ out.handler = "step"
  /\ \E data \in ViewData :
       /\ \E k \in 1..Len(OrganismsOf(Get(data))) :
            /\ IsSome(OrganismsOf(Get(data))[k].population)
            /\ IsSome(OrganismsOf(Get(data))[k].averageGenome)
       /\ organismPanels["a"].population = Some(5)
       /\ reconcile(View, Get(data), showExactGenes) = View

\* format of the genome formatter: the text of a genome vector and its trait
\* names in a display mode, an empty or missing vector giving the literal.
Format(genome, traitNames, exact) ==
  IF IsSome(genome) /\ Len(Get(genome)) > 0
  THEN "Avg genome: " \o formattedValues(Get(genome), traitNames, exact)
  ELSE "Avg genome: n/a"

\* C11: the genome text of every organism that has received a delta (its text
\* was written by the script) is the format of its cached genome and trait
\* names in the current display mode.
C11_GenomeTextFromCache ==
  \A id \in Registered :
    organismPanels[id].genomeText # StaticText =>
      organismPanels[id].genomeText =
        Format(organismPanels[id].lastAverageGenome,
               organismPanels[id].lastTraitNames, showExactGenes)

\* C12: a display toggle issues no request and changes only the display
\* mode, the toggle label and the genome texts.
C12_ToggleFrame ==
  [][Toggle =>
       /\ UNCHANGED <<running, currentController, chain, sprites, levelTotals,
                      saveReqs, resetReq>>
       /\ out'.saves = <<>> /\ out'.events = <<>> /\ out'.issued = 0
       /\ \A id \in Registered :
            organismPanels'[id] =
              [organismPanels[id] EXCEPT !.genomeText = organismPanels'[id].genomeText]
       /\ showExactGenes' # showExactGenes
       /\ toggleLabel' # toggleLabel]_vars

\* A toggle has re-rendered a cached genome of "a" in the exact mode while a
\* step request is pending.
C12_Witness ==
  /\ out.handler = "toggle"
  /\ showExactGenes
  /\ chain[1] = "pending"
  /\ organismPanels["a"].genomeText = "Avg genome: Beak: 0.900 | Trait 2: 0.333"

\* The positions in a response's organisms of the deltas that name id, and
\* the last of them, which forEach applies last.
DeltasFor(data, id) ==
  {k \in 1..Len(OrganismsOf(data)) : OrganismsOf(data)[k].id = id}

LastDeltaFor(data, id) ==
  OrganismsOf(data)[CHOOSE k \in DeltasFor(data, id) :
                      \A j \in DeltasFor(data, id) : j <= k]

\* The view a pending step request leaves when it is answered with data
\* (the then-callback of performStep, lines 353-364).
Reconciled(data) == reconcile(View, Get(data), showExactGenes)

\* C13: after a reconciled response, for every delta whose sprite exists,
\* each transient flag of the sprite is the delta's value when the delta
\* carries it and is removed when the delta omits it.
C13_FlagsFollowDelta ==
  chain[1] = "pending" =>
    \A data \in ViewData :
      \A id \in Registered :
        (Reconciled(data).sprites[id].present /\ DeltasFor(Get(data), id) # {}) =>
          LET d == LastDeltaFor(Get(data), id)
              s == Reconciled(data).sprites[id]
          IN  /\ s.caughtPrey = (IF IsSome(d.caughtPrey)
                                 THEN Some(IF Get(d.caughtPrey) THEN "true" ELSE "false")
                                 ELSE None)
              /\ s.cycleStep = (IF IsSome(d.cycleStep)
                                THEN Some(ToString(Get(d.cycleStep))) ELSE None)
              /\ s.canMove = (IF IsSome(d.canMove)
                              THEN Some(IF Get(d.canMove) THEN "true" ELSE "false")
                              ELSE None)

\* The sprite of "a" got its position together with the three flags, and a
\* later delta that omits the flags has removed them.
C13_Witness ==
  /\ out.handler = "step"
  /\ sprites["a"].present
  /\ sprites["a"].row = Some("1") /\ sprites["a"].col = Some("12")
  /\ sprites["a"].caughtPrey = None
  /\ sprites["a"].cycleStep = None
  /\ sprites["a"].canMove = None

\* C14: a response none of whose deltas for an organism carries a row (a
\* col) leaves the row (the col) its sprite stores as it was before the step.
C14_AbsentPositionKept ==
  chain[1] = "pending" =>
    \A data \in ViewData :
      \A id \in Registered :
        Reconciled(data).sprites[id].present =>
          /\ (\A k \in DeltasFor(Get(data), id) :
                 ~IsSome(OrganismsOf(Get(data))[k].row))
               => Reconciled(data).sprites[id].row = sprites[id].row
          /\ (\A k \in DeltasFor(Get(data), id) :
                 ~IsSome(OrganismsOf(Get(data))[k].col))
               => Reconciled(data).sprites[id].col = sprites[id].col

\* The sprite of "a" was placed at row 1, col 12 and a later delta with a
\* row alone moved it to row 4: the col is the earlier one.
C14_Witness ==
  /\ out.handler = "step"
  /\ sprites["a"].present
  /\ sprites["a"].row = Some("4") /\ sprites["a"].col = Some("12")

\* The ids a response lists as extinct.
ExtinctIds(data) == {ExtinctOf(data)[k] : k \in 1..Len(ExtinctOf(data))}

\* C15: after a reconciled response, every registered id of its extinct list
\* has population 0, a hidden panel and no sprite, whatever the deltas of
\* the same response say, and the level totals count those extinctions.
C15_ExtinctWins ==
  chain[1] = "pending" =>
    \A data \in ViewData :
      LET v == Reconciled(data)
      IN  /\ \A id \in ExtinctIds(Get(data)) \cap Registered :
               /\ v.panels[id].population = Some(0)
               /\ v.panels[id].populationText = "Extinct"
               /\ v.panels[id].hidden
               /\ ~v.sprites[id].present
          /\ ExtinctIds(Get(data)) # {} =>
               \A l \in Levels :
                 v.totals[l] =
                   CountText(SumPop(v.panels, {id \in Registered : LevelOf(id) = l}))

\* "a" was reported with population 5 and listed extinct: its stored population
\* is 0, its panel is hidden, its sprite is gone and its level counts nobody.
C15_Witness ==
  /\ out.handler = "step"
  /\ "a" \in extinctSeen
  /\ organismPanels["a"].lastTraitNames = Some(<<"Beak">>)
  /\ organismPanels["a"].population = Some(0)
  /\ organismPanels["a"].hidden
  /\ ~sprites["a"].present
  /\ levelTotals["L1"] = "Population: 0 individuals"

\* The responses that name unregistered ids only, as deltas or as extinct.
UnknownOnly ==
  {data \in ViewData :
     /\ \A k \in 1..Len(OrganismsOf(Get(data))) :
          OrganismsOf(Get(data))[k].id \notin Registered
     /\ ExtinctIds(Get(data)) \cap Registered = {}
     /\ Len(OrganismsOf(Get(data))) + Len(ExtinctOf(Get(data))) > 0}

Partial(data) ==
  \/ ~IsSome(data)
  \/ /\ Get(data).cycleComplete # Some(TRUE)
     /\ None \in {Get(data).organisms, Get(data).extinct, Get(data).cycleComplete,
                   Get(data).cycleSummary, Get(data).cycleIndex}

\* C17: a 2xx response with missing fields is not a failure: a missing
\* organisms or extinct list changes nothing in the view, nothing is saved or
\* announced, and a running loop stays running with its next step scheduled.
C17_PartialResponseTolerated ==
  [][\A i \in Slots : \A data \in LoopData :
       (StepOk(i, data) /\ Partial(data)) =>
         /\ running' = running
         /\ stopCause' = stopCause
         /\ out'.saves = <<>> /\ out'.events = <<>>
         /\ saveReqs' = saveReqs
         /\ running => (chain'[i] = "timer" /\ out'.ok = i)
         /\ (~IsSome(data) \/ (Get(data).organisms = None /\ Get(data).extinct = None))
              => UNCHANGED viewVars]_vars

\* A running loop has taken a body with no organisms and no extinct list:
\* the view is untouched and the next step is scheduled.
C17_Witness ==
  /\ out.handler = "step" /\ out.ok # 0
  /\ running /\ stopCause = "none"
  /\ chain[out.ok] = "timer"
  /\ \A id \in Registered : organismPanels[id].genomeText = StaticText
  /\ \A l \in Levels : levelTotals[l] = StaticText

\* C18: a failed save request or a failed reset request changes neither the
\* polling state nor the view and issues nothing again; the reset request of
\* startup is the only one ever issued.
C18_SaveResetFailuresIsolated ==
  [][/\ (SaveFail \/ ResetFail) =>
          /\ UNCHANGED <<running, currentController, chain, organismPanels, sprites,
                         levelTotals, showExactGenes, toggleLabel, stopCause>>
          /\ saveReqs' <= saveReqs
          /\ out'.saves = <<>> /\ out'.issued = 0
     /\ SaveFail => (saveReqs' = saveReqs - 1 /\ resetReq' = resetReq)
     /\ ResetFail => (resetReq' = "failed" /\ saveReqs' = saveReqs)
     /\ resetReq # "pending" => resetReq' # "pending"]_vars

\* The reset of startup has failed, a cycle was saved and the save failed
\* while a later run was waiting for its step: that run goes on.
C18_Witness ==
  /\ out.handler = "saveFail"
  /\ resetReq = "failed"
  /\ saveReqs = 0
  /\ running /\ currentController # 0
  /\ chain[currentController] = "pending"

\* C19: a user start of a stopped loop sets it running with a fresh, tracked
\* step request, and a running loop stops only by a user stop, by the
\* failure of a request that no earlier user stop left behind, or by a
\* response that reports a completed cycle.
C19_StartResumesUntilOwnStop ==
  [][/\ ClickStart(Slots) =>
          /\ ~running /\ running'
          /\ out'.issued # 0
          /\ chain[out'.issued] = "free" /\ chain'[out'.issued] = "pending"
          /\ currentController' = out'.issued
     /\ (running /\ ~running') =>
          \/ ClickStop
          \/ \E i \in Slots \ stale : StepFail(i)
          \/ \E i \in Slots : \E data \in LoopData :
               StepOk(i, data) /\ IsComplete(data)]_vars

\* String(value).padStart(2, '0') on the string a sprite stores.
padStart2(str) == IF Len(str) < 2 THEN "0" \o str ELSE str

\* C20: the coordinate text of every organism that has got a delta with a
\* row and a col (its text was written by the script) and whose sprite is on
\* the page names the row and the col the sprite stores.
C20_CoordsMatchSprite ==
  \A id \in Registered :
    (organismPanels[id].coordsText # StaticText /\ sprites[id].present) =>
      /\ IsSome(sprites[id].row) /\ IsSome(sprites[id].col)
      /\ organismPanels[id].coordsText =
           padStart2(Get(sprites[id].row)) \o ", c" \o padStart2(Get(sprites[id].col))

====
